---- MODULE Spec2Model ----
(***************************************************************************)
(* A model of the room/session state machine of src/roomHandler.js: the    *)
(* room registry (the Map `rooms` of src/index.js), the eight socket event *)
(* handlers, the round generator and the ranking calculator.               *)
(*                                                                         *)
(* Node runs every handler to completion before the next event; the only   *)
(* suspension points are the awaits of createRoom and nextRound on the     *)
(* question fetch.  Those two handlers are therefore two steps each (the   *)
(* part before the await, the part after the fetch has settled); every     *)
(* other handler is one step.                                              *)
(***************************************************************************)
EXTENDS Integers, Sequences, FiniteSets, Bags, TLC

VARIABLES
  rooms,        \* the registry: room code -> room object (index.js `rooms`)
  joined,       \* socket.io channel membership: set of <<socket id, room code>>
  creating,     \* bag of createRoom calls suspended at the await
  advancing,    \* bag of nextRound calls suspended at the await
  materialized, \* history: room code -> the categories its rounds were fetched for
  last          \* the step just taken: event, inputs, callback reply, emits

vars == <<rooms, joined, creating, advancing, materialized, last>>

----------------------------------------------------------------------------
(* Bounds of the model.                                                    *)

\* Cap on a player's totalScore (the code has none).
MaxScore == 2
\* Cap on the number of calls suspended at an await at the same time.
MaxPending == 2
\* Cap on the iterations of the sampling loop of generateUniqueRoomId.
MaxDraws == 2
\* Cap on the number of rounds a room materializes (a cyclic plan has none).
MaxRounds == 3

----------------------------------------------------------------------------
(* JavaScript values.                                                      *)

\* null in a number-valued field (ranks are >= 1, category ids are >= 9).
Null == 0
\* undefined in a number-valued payload field.
Undefined == -1

\* The string "end of round", character by character (JS indexes it from 0).
EndOfRoundString == <<"e", "n", "d", " ", "o", "f", " ", "r", "o", "u", "n", "d">>

DefaultQuestionTimeLimit == 0
DefaultQuestionsPerRound == 5

\* Number.prototype.toString of a non-negative integer: its decimal digits.
RECURSIVE NumberToString(_)
NumberToString(n) ==
  IF n < 10 THEN <<n>> ELSE Append(NumberToString(n \div 10), n % 10)

\* The number a digit string denotes (used to state claims, not by the code).
RECURSIVE ToNumber(_)
ToNumber(str) ==
  IF str = <<>> THEN 0
  ELSE 10 * ToNumber(SubSeq(str, 1, Len(str) - 1)) + str[Len(str)]

\* A value of Math.random() is a rational num/den in [0, 1), held as <<num, den>>.
\* Math.floor(lo + random * span), computed without leaving 32 bits:
\* span = q * den + m, so num * span / den = num * q + num * m / den.
FloorScaled(lo, r, span) ==
  lo + r[1] * (span \div r[2]) + ((r[1] * (span % r[2])) \div r[2])

BagSize(b) == BagCardinality(b)

----------------------------------------------------------------------------
(* generateUniqueRoomId                                                    *)

\* The loop has consumed every draw it was given and is still running.
Looping == <<>>

RoomCode(r) == NumberToString(FloorScaled(100000, r, 900000))

\* A slip: the sampled code is returned without the registry check.
GenerateUniqueRoomIdUnchecked(reg, draws) ==
  IF draws = <<>> THEN Looping ELSE RoomCode(Head(draws))

\* draws: the successive values of Math.random() seen by the loop.
RECURSIVE GenerateUniqueRoomId(_, _)
GenerateUniqueRoomId(reg, draws) ==
  IF draws = <<>> THEN Looping
  ELSE LET roomId == RoomCode(Head(draws))
           exists == roomId \in DOMAIN reg
       IN  IF exists THEN GenerateUniqueRoomId(reg, Tail(draws)) ELSE roomId

----------------------------------------------------------------------------
(* Players and questions.                                                  *)

\* An entry of room.players: the key (socket id) with the player object.
InitializePlayer(id, playerName) ==
  [ id                  |-> id,
    name                |-> playerName,
    currentRoundScore   |-> 0,
    totalScore          |-> 0,
    currentRoundAnswers |-> <<>>,
    endOfRoundRank      |-> Null,
    overallRank         |-> Null ]

\* room.players is an ordered sequence of entries (insertion order, the
\* order of Object.keys and Object.entries).
PlayerIds(room) == {room.players[i].id : i \in 1..Len(room.players)}
PlayerIndex(room, id) == CHOOSE i \in 1..Len(room.players) : room.players[i].id = id
PlayerOf(room, id) == room.players[PlayerIndex(room, id)]

Swap(array, i, j) == [array EXCEPT ![i] = array[j], ![j] = array[i]]

\* Fisher-Yates, i from the last index down to the second; draws[k] is the
\* value of Math.random() of the k-th iteration.  Indices here are 1-based:
\* JS index i is i+1, and j = floor(random * (i + 1)) is j+1.
RECURSIVE ShuffleFrom(_, _, _)
ShuffleFrom(array, i, draws) ==
  IF i < 2 THEN array
  ELSE LET j == FloorScaled(0, Head(draws), i) + 1
       IN  ShuffleFrom(Swap(array, i, j), i - 1, Tail(draws))

ShuffleArray(array, draws) == ShuffleFrom(array, Len(array), draws)

\* What the provider returns for one question of a category.
ProviderQuestion(category, index) ==
  [ question          |-> <<category, index>>,
    correct_answer    |-> "right",
    incorrect_answers |-> <<"wrong">> ]

\* formattedQuestions[index + 1] of generateRound
FormatQuestion(questionData, draws) ==
  [ question       |-> questionData.question,
    correct_answer |-> questionData.correct_answer,
    allAnswers     |-> ShuffleArray(<<questionData.correct_answer>>
                                     \o questionData.incorrect_answers, draws) ]

\* roundQuestions is an object of questions keyed 1..N, or (after the plan
\* is exhausted) the string "end of round".
QuestionsObject(qs) == [type |-> "object", questions |-> qs]
EndOfRoundSentinel  == [type |-> "string", questions |-> <<>>]
\* roundQuestions: null, the value of a room object before its first round.
NullQuestions       == [type |-> "null", questions |-> <<>>]

\* The kind of value roundQuestions[qid] is in JS ("throws": null has no
\* properties to read).
LookupKind(rq, qid) ==
  CASE rq.type = "object" ->
         IF qid \in 1..Len(rq.questions) THEN "question" ELSE "undefined"
    [] rq.type = "string" ->
         IF qid \in 0..(Len(EndOfRoundString) - 1) THEN "char" ELSE "undefined"
    [] rq.type = "null" -> "throws"

----------------------------------------------------------------------------
(* generateRound, the part before the fetch.                               *)

DifficultyMap(mode) ==
  CASE mode = 1 -> "easy"
    [] mode = 2 -> "medium"
    [] mode = 3 -> "hard"
    [] mode = 4 -> "easy"
    [] OTHER    -> "easy"

\* rounds.indexOf(x) as a 1-based index, 0 when absent
IndexOf(rounds, x) ==
  IF \E i \in 1..Len(rounds) : rounds[i] = x
    THEN CHOOSE i \in 1..Len(rounds) :
           rounds[i] = x /\ \A k \in 1..(i - 1) : rounds[k] # x
    ELSE 0

\* A slip: the position in the plan is the last occurrence of the category.
NextCategoryIdLastIndex(currentRound, rounds) ==
  IF currentRound = Null THEN rounds[1]
  ELSE LET occurrences == {i \in 1..Len(rounds) : rounds[i] = currentRound}
       IN  IF occurrences # {} /\ \A i \in occurrences : i < Len(rounds)
             THEN rounds[(CHOOSE i \in occurrences : \A k \in occurrences : k <= i) + 1]
             ELSE Null

\* The next category id, or Null for the "end of round" return.
NextCategoryId(currentRound, rounds) ==
  IF currentRound = Null THEN rounds[1]
  ELSE LET currentIndex == IndexOf(rounds, currentRound)
       IN  IF currentIndex >= 1 /\ currentIndex < Len(rounds)
             THEN rounds[currentIndex + 1] ELSE Null

----------------------------------------------------------------------------
(* calculateRankings                                                       *)

\* Array.prototype.sort with (a, b) => b.score - a.score: a stable sort,
\* descending by score.  Insert(sorted, x) puts x after every entry whose
\* score is not smaller.
RECURSIVE Insert(_, _)
Insert(sorted, x) ==
  IF sorted = <<>> THEN <<x>>
  ELSE IF Head(sorted).score >= x.score
         THEN <<Head(sorted)>> \o Insert(Tail(sorted), x)
         ELSE <<x>> \o sorted

RECURSIVE SortDescending(_)
SortDescending(entries) ==
  IF entries = <<>> THEN <<>>
  ELSE Insert(SortDescending(SubSeq(entries, 1, Len(entries) - 1)),
              entries[Len(entries)])

\* A slip: the rank after a tie group is the previous rank plus one.
RECURSIVE RankLoopDense(_, _, _, _)
RankLoopDense(rankings, i, currentRank, ranks) ==
  IF i > Len(rankings) THEN ranks
  ELSE LET rank == IF i > 1 /\ rankings[i].score # rankings[i - 1].score
                     THEN currentRank + 1 ELSE currentRank
       IN  RankLoopDense(rankings, i + 1, rank,
                         (rankings[i].playerId :> rank) @@ ranks)

\* The loop over the sorted entries: i is the 1-based position, ranks the
\* assignments made so far (player id -> rank).
RECURSIVE RankLoop(_, _, _, _)
RankLoop(rankings, i, currentRank, ranks) ==
  IF i > Len(rankings) THEN ranks
  ELSE LET rank == IF i > 1 /\ rankings[i].score # rankings[i - 1].score
                     THEN i ELSE currentRank
       IN  RankLoop(rankings, i + 1, rank,
                    (rankings[i].playerId :> rank) @@ ranks)

RoundRankings(room) ==
  SortDescending([i \in 1..Len(room.players) |->
    [playerId |-> room.players[i].id, score |-> room.players[i].currentRoundScore]])

OverallRankings(room) ==
  SortDescending([i \in 1..Len(room.players) |->
    [playerId |-> room.players[i].id, score |-> room.players[i].totalScore]])

CalculateRankings(room) ==
  LET roundRanks   == RankLoop(RoundRankings(room), 1, 1, <<>>)
      overallRanks == RankLoop(OverallRankings(room), 1, 1, <<>>)
  IN  [room EXCEPT !.players = [i \in 1..Len(room.players) |->
        [room.players[i] EXCEPT
           !.endOfRoundRank = roundRanks[room.players[i].id],
           !.overallRank    = overallRanks[room.players[i].id]]]]

----------------------------------------------------------------------------
(* What a step shows to the outside: the callback reply and the emits.     *)

NoPlayerData == InitializePlayer("", "")

\* io.to(target).emit(event, data); target is a room code or a socket id.
Emit(event, toRoom, toSocket, data) ==
  [event |-> event, toRoom |-> toRoom, toSocket |-> toSocket, data |-> data]

NoData == [name |-> "", playerId |-> "", answer |-> "", isCorrect |-> FALSE,
           num |-> Null, playerData |-> NoPlayerData]

\* result: "ok" (callback(null, ...)), "pending" (suspended at the await, no
\* callback yet), "TypeError" (the handler threw) or the error called back.
Step(op, socket, roomId, name, num, result, emits) ==
  [op |-> op, socket |-> socket, roomId |-> roomId, name |-> name,
   num |-> num, result |-> result, emits |-> emits]

\* An effect of a handler on the registry, with what it shows.
Effect(reg, result, emits) == [rooms |-> reg, result |-> result, emits |-> emits]

\* An uncaught exception of a handler ends the Node process.
Running == last.result # "TypeError"

Pending == BagSize(creating) + BagSize(advancing)

Init ==
  /\ rooms = <<>>
  /\ joined = {}
  /\ creating = EmptyBag
  /\ advancing = EmptyBag
  /\ materialized = <<>>
  /\ last = Step("init", "", <<>>, "", Null, "ok", <<>>)

----------------------------------------------------------------------------
(* room:create                                                             *)

NewRoom(roomId, socket, questionTimeLimit, questionsPerRound, rounds, mode) ==
  [ roomId            |-> roomId,
    gameMaster        |-> socket,
    questionTimeLimit |-> IF questionTimeLimit # Undefined
                            THEN questionTimeLimit ELSE DefaultQuestionTimeLimit,
    questionPerRound  |-> IF questionsPerRound # Undefined
                            THEN questionsPerRound ELSE DefaultQuestionsPerRound,
    mode              |-> mode,
    rounds            |-> rounds,
    players           |-> <<>>,
    quizStarted       |-> FALSE,
    currentProgress   |-> [ currentRound    |-> Null,
                            currentQuestion |-> 1,
                            roundQuestions  |-> NullQuestions ] ]

\* The request of generateRound to the provider.
Request(category, room) ==
  [category |-> category, amount |-> room.questionPerRound,
   difficulty |-> DifficultyMap(room.mode)]

\* results.forEach of generateRound: the provider's answer, formatted.
\* count is the number of results, draws[i] the shuffle draws of result i.
FormattedQuestions(category, count, draws) ==
  QuestionsObject([i \in 1..count |->
                     FormatQuestion(ProviderQuestion(category, i), draws[i])])

\* createRoom up to the await of generateRound(null, ...).
CreateBegin(socket, payload, draws, maxPending) ==
  LET roomId == GenerateUniqueRoomId(rooms, draws)
      room   == NewRoom(roomId, socket, payload.questionTimeLimit,
                        payload.questionPerRound, payload.rounds, payload.mode)
      call   == [socket |-> socket, room |-> room,
                 request |-> Request(NextCategoryId(Null, room.rounds), room)]
  IN  /\ Running
      /\ Pending < maxPending
      /\ roomId # Looping
      /\ creating' = creating (+) SetToBag({call})
      /\ last' = Step("create", socket, roomId, "", Null, "pending", <<>>)
      /\ UNCHANGED <<rooms, joined, advancing, materialized>>

\* rooms.set replaces the object registered under roomId, if any: a nextRound
\* suspended on that object keeps it, and it is no longer the registered one.
MarkOrphans(calls, roomId) ==
  LET old == BagToSet(calls)
      mark(c) == IF c.roomId = roomId THEN [c EXCEPT !.orphan = TRUE] ELSE c
      copies(c) == IF c \in old THEN calls[c] ELSE 0
  IN  [c \in {mark(x) : x \in old} |->
         IF c.roomId = roomId
           THEN copies(c) + copies([c EXCEPT !.orphan = FALSE])
           ELSE copies(c)]

\* rooms.set(roomId, room)
Register(reg, room) == (room.roomId :> room) @@ reg

\* A slip: the room is put in the registry before its first round is
\* awaited, so a failed fetch leaves it there without questions.
CreateEndRegisteredEarly(call, count, draws) ==
  LET category == call.request.category
      room == [call.room EXCEPT
                 !.currentProgress.currentRound = category,
                 !.currentProgress.roundQuestions =
                    FormattedQuestions(category, count, draws)]
  IN  /\ Running
      /\ BagIn(call, creating)
      /\ creating' = creating (-) SetToBag({call})
      /\ advancing' = MarkOrphans(advancing, call.room.roomId)
      /\ joined' = joined \cup {<<call.socket, call.room.roomId>>}
      /\ IF count < 0
           THEN /\ rooms' = Register(rooms, call.room)
                /\ materialized' = (call.room.roomId :> <<>>) @@ materialized
                /\ last' = Step("create", call.socket, call.room.roomId, "", Null,
                                "QuestionGenerationFailed", <<>>)
           ELSE /\ rooms' = Register(rooms, room)
                /\ materialized' = (room.roomId :> <<category>>) @@ materialized
                /\ last' = Step("create", call.socket, room.roomId, "", Null, "ok", <<>>)

\* createRoom after the fetch has settled, and the callback of create.
\* count = -1: the fetch (or the parsing of its answer) failed.
CreateEnd(call, count, draws) ==
  LET category == call.request.category
      room == [call.room EXCEPT
                 !.currentProgress.currentRound = category,
                 !.currentProgress.roundQuestions =
                    FormattedQuestions(category, count, draws)]
  IN  /\ Running
      /\ BagIn(call, creating)
      /\ creating' = creating (-) SetToBag({call})
      /\ IF count < 0
           THEN /\ last' = Step("create", call.socket, call.room.roomId, "", Null,
                                "QuestionGenerationFailed", <<>>)
                /\ UNCHANGED <<rooms, joined, advancing, materialized>>
           ELSE /\ rooms' = Register(rooms, room)
                /\ joined' = joined \cup {<<call.socket, room.roomId>>}
                /\ materialized' = (room.roomId :> <<category>>) @@ materialized
                /\ advancing' = MarkOrphans(advancing, room.roomId)
                /\ last' = Step("create", call.socket, room.roomId, "", Null, "ok", <<>>)

----------------------------------------------------------------------------
(* quiz:start                                                              *)

\* A slip: the player count is not checked.
StartQuizEffectNoCount(reg, roomId) ==
  IF roomId \in DOMAIN reg
    THEN Effect([reg EXCEPT ![roomId].quizStarted = TRUE], "ok",
                <<Emit("quiz:started", roomId, "", NoData)>>)
    ELSE Effect(reg, "RoomNotFound", <<>>)

\* A slip: a missing room is read as a room without players.
StartQuizEffectMissingRoom(reg, roomId) ==
  LET playerCount == IF roomId \in DOMAIN reg THEN Len(reg[roomId].players) ELSE 0
  IN  IF playerCount = 0
        THEN Effect(reg, "NoPlayers", <<>>)
        ELSE Effect([reg EXCEPT ![roomId].quizStarted = TRUE], "ok",
                    <<Emit("quiz:started", roomId, "", NoData)>>)

StartQuizEffect(reg, roomId) ==
  IF roomId \in DOMAIN reg
    THEN LET room == reg[roomId]
             playerCount == Len(room.players)
         IN  IF playerCount = 0
               THEN Effect(reg, "NoPlayers", <<>>)
               ELSE Effect([reg EXCEPT ![roomId].quizStarted = TRUE], "ok",
                           <<Emit("quiz:started", room.roomId, "", NoData)>>)
    ELSE Effect(reg, "RoomNotFound", <<>>)

StartQuiz(socket, roomId) ==
  LET e == StartQuizEffect(rooms, roomId)
  IN  /\ Running
      /\ rooms' = e.rooms
      /\ last' = Step("startQuiz", socket, roomId, "", Null, e.result, e.emits)
      /\ UNCHANGED <<joined, creating, advancing, materialized>>

----------------------------------------------------------------------------
(* player:join                                                             *)

AddPlayer(reg, socket, roomId, name) ==
  Effect([reg EXCEPT ![roomId].players = Append(@, InitializePlayer(socket, name))],
         "ok",
         <<Emit("player:joined", <<>>, reg[roomId].gameMaster,
                [NoData EXCEPT !.name = name])>>)

\* A slip: the quizStarted check is missing.
PlayerJoinEffectLate(reg, socket, roomId, name) ==
  IF roomId \in DOMAIN reg
    THEN IF socket \in PlayerIds(reg[roomId])
           THEN Effect(reg, "ok", <<>>)
           ELSE AddPlayer(reg, socket, roomId, name)
    ELSE Effect(reg, "RoomNotFound", <<>>)

\* A slip: the check for an existing player of the connection is missing.
PlayerJoinEffectAgain(reg, socket, roomId, name) ==
  IF roomId \in DOMAIN reg
    THEN IF reg[roomId].quizStarted
           THEN Effect(reg, "QuizAlreadyStarted", <<>>)
           ELSE IF socket \in PlayerIds(reg[roomId])
                  THEN Effect([reg EXCEPT ![roomId].players[PlayerIndex(reg[roomId], socket)] =
                                 InitializePlayer(socket, name)],
                              "ok", AddPlayer(reg, socket, roomId, name).emits)
                  ELSE AddPlayer(reg, socket, roomId, name)
    ELSE Effect(reg, "RoomNotFound", <<>>)

PlayerJoinEffect(reg, socket, roomId, name) ==
  IF roomId \in DOMAIN reg
    THEN LET room == reg[roomId]
         IN  IF room.quizStarted
               THEN Effect(reg, "QuizAlreadyStarted", <<>>)
               ELSE IF socket \in PlayerIds(room)
                      THEN Effect(reg, "ok", <<>>)
                      ELSE AddPlayer(reg, socket, roomId, name)
    ELSE Effect(reg, "RoomNotFound", <<>>)

PlayerJoin(socket, roomId, name) ==
  LET e == PlayerJoinEffect(rooms, socket, roomId, name)
  IN  /\ Running
      /\ rooms' = e.rooms
      /\ joined' = IF e.result = "ok" THEN joined \cup {<<socket, roomId>>} ELSE joined
      /\ last' = Step("playerJoin", socket, roomId, name, Null, e.result, e.emits)
      /\ UNCHANGED <<creating, advancing, materialized>>

----------------------------------------------------------------------------
(* quiz:nextQuestion                                                       *)

NextQuestionEffect(reg, roomId, questionId) ==
  IF roomId \in DOMAIN reg
    THEN Effect([reg EXCEPT ![roomId].currentProgress.currentQuestion = questionId],
                "ok",
                <<Emit("quiz:nextQuestion", reg[roomId].roomId, "",
                       [NoData EXCEPT !.num = questionId])>>)
    ELSE Effect(reg, "RoomNotFound", <<>>)

NextQuestion(socket, roomId, questionId) ==
  LET e == NextQuestionEffect(rooms, roomId, questionId)
  IN  /\ Running
      /\ rooms' = e.rooms
      /\ last' = Step("nextQuestion", socket, roomId, "", questionId, e.result, e.emits)
      /\ UNCHANGED <<joined, creating, advancing, materialized>>

----------------------------------------------------------------------------
(* quiz:endOfRound and quiz:endOfGame                                      *)

\* A slip: each player's record is emitted to the room's channel.
EndOfEffectBroadcast(reg, roomId, event) ==
  IF roomId \in DOMAIN reg
    THEN LET room == CalculateRankings(reg[roomId])
         IN  Effect([reg EXCEPT ![roomId] = room], "ok",
                    [i \in 1..Len(room.players) |->
                       Emit(event, room.roomId, "",
                            [NoData EXCEPT !.playerData = room.players[i]])])
    ELSE Effect(reg, "RoomNotFound", <<>>)

\* Both handlers: rankings, then one emit to each player in key order.
EndOfEffect(reg, roomId, event) ==
  IF roomId \in DOMAIN reg
    THEN LET room == CalculateRankings(reg[roomId])
         IN  Effect([reg EXCEPT ![roomId] = room], "ok",
                    [i \in 1..Len(room.players) |->
                       Emit(event, <<>>, room.players[i].id,
                            [NoData EXCEPT !.playerData = room.players[i]])])
    ELSE Effect(reg, "RoomNotFound", <<>>)

EndOfRound(socket, roomId) ==
  LET e == EndOfEffect(rooms, roomId, "quiz:endOfRound")
  IN  /\ Running
      /\ rooms' = e.rooms
      /\ last' = Step("endOfRound", socket, roomId, "", Null, e.result, e.emits)
      /\ UNCHANGED <<joined, creating, advancing, materialized>>

EndOfGame(socket, roomId) ==
  LET e == EndOfEffect(rooms, roomId, "quiz:endOfGame")
  IN  /\ Running
      /\ rooms' = e.rooms
      /\ last' = Step("endOfGame", socket, roomId, "", Null, e.result, e.emits)
      /\ UNCHANGED <<joined, creating, advancing, materialized>>

----------------------------------------------------------------------------
(* submitAnswer                                                            *)

\* currentQuestion.allAnswers[playerAnswer - 1]; "undefined" out of range
SelectedAnswer(question, playerAnswer) ==
  IF playerAnswer \in 1..Len(question.allAnswers)
    THEN question.allAnswers[playerAnswer] ELSE "undefined"

\* A slip: a repeated correct answer to the same question is not scored again.
ScoreOnce(player, currentQid, isCorrect) ==
  [player EXCEPT
     !.currentRoundAnswers = (currentQid :> isCorrect) @@ @,
     !.currentRoundScore = IF isCorrect /\ currentQid \notin DOMAIN player.currentRoundAnswers
                             THEN @ + 1 ELSE @,
     !.totalScore = IF isCorrect /\ currentQid \notin DOMAIN player.currentRoundAnswers
                      THEN @ + 1 ELSE @]

\* The record of the answer and the score update.
Score(player, currentQid, isCorrect) ==
  [player EXCEPT
     !.currentRoundAnswers = (currentQid :> isCorrect) @@ @,
     !.currentRoundScore = IF isCorrect THEN @ + 1 ELSE @,
     !.totalScore = IF isCorrect THEN @ + 1 ELSE @]

\* A slip: the player is looked up by connection, not in the addressed room:
\* the answer is scored in every room the connection plays in.
SubmitAnswerEffectEveryRoom(reg, socket, roomId, playerAnswer) ==
  IF roomId \in DOMAIN reg
    THEN LET room == reg[roomId]
             currentQid == room.currentProgress.currentQuestion
             kind == LookupKind(room.currentProgress.roundQuestions, currentQid)
         IN  IF socket \notin PlayerIds(room)
               THEN Effect(reg, "PlayerNotFound", <<>>)
             ELSE IF kind = "undefined"
               THEN Effect(reg, "NoActiveQuestion", <<>>)
             ELSE IF kind \in {"char", "throws"}
               THEN Effect(reg, "TypeError", <<>>)
             ELSE
               LET currentQuestion == room.currentProgress.roundQuestions.questions[currentQid]
                   selectedAnswer  == SelectedAnswer(currentQuestion, playerAnswer)
                   isCorrect       == selectedAnswer = currentQuestion.correct_answer
                   scored(r)       ==
                     IF socket \in PlayerIds(reg[r])
                       THEN [reg[r] EXCEPT !.players[PlayerIndex(reg[r], socket)] =
                                              Score(@, currentQid, isCorrect)]
                       ELSE reg[r]
               IN  Effect([r \in DOMAIN reg |-> scored(r)], "ok",
                          <<Emit("playerAnswered", <<>>, room.gameMaster,
                                 [NoData EXCEPT !.playerId = socket,
                                                !.name = room.players[PlayerIndex(room, socket)].name,
                                                !.answer = selectedAnswer,
                                                !.isCorrect = isCorrect])>>)
    ELSE Effect(reg, "RoomNotFound", <<>>)

\* A slip: the notification goes to the room's channel, not to the game master.
SubmitAnswerEffectBroadcast(reg, socket, roomId, playerAnswer) ==
  IF roomId \in DOMAIN reg
    THEN LET room == reg[roomId]
             currentQid == room.currentProgress.currentQuestion
             kind == LookupKind(room.currentProgress.roundQuestions, currentQid)
         IN  IF socket \notin PlayerIds(room)
               THEN Effect(reg, "PlayerNotFound", <<>>)
             ELSE IF kind = "undefined"
               THEN Effect(reg, "NoActiveQuestion", <<>>)
             ELSE IF kind \in {"char", "throws"}
               THEN Effect(reg, "TypeError", <<>>)
             ELSE
               LET currentQuestion == room.currentProgress.roundQuestions.questions[currentQid]
                   selectedAnswer  == SelectedAnswer(currentQuestion, playerAnswer)
                   isCorrect       == selectedAnswer = currentQuestion.correct_answer
                   i               == PlayerIndex(room, socket)
                   player          == Score(room.players[i], currentQid, isCorrect)
               IN  Effect([reg EXCEPT ![roomId].players[i] = player], "ok",
                          <<Emit("playerAnswered", room.roomId, "",
                                 [NoData EXCEPT !.playerId = socket,
                                                !.name = player.name,
                                                !.answer = selectedAnswer,
                                                !.isCorrect = isCorrect])>>)
    ELSE Effect(reg, "RoomNotFound", <<>>)

SubmitAnswerEffect(reg, socket, roomId, playerAnswer) ==
  IF roomId \in DOMAIN reg
    THEN LET room == reg[roomId]
             currentQid == room.currentProgress.currentQuestion
             kind == LookupKind(room.currentProgress.roundQuestions, currentQid)
         IN  IF socket \notin PlayerIds(room)
               THEN Effect(reg, "PlayerNotFound", <<>>)
             ELSE IF kind = "undefined"
               THEN Effect(reg, "NoActiveQuestion", <<>>)
             ELSE IF kind \in {"char", "throws"}
               \* a character of "end of round" has no allAnswers:
               \* undefined[playerAnswer - 1] throws
               THEN Effect(reg, "TypeError", <<>>)
             ELSE
               LET currentQuestion == room.currentProgress.roundQuestions.questions[currentQid]
                   correctAnswer   == currentQuestion.correct_answer
                   selectedAnswer  == SelectedAnswer(currentQuestion, playerAnswer)
                   isCorrect       == selectedAnswer = correctAnswer
                   i               == PlayerIndex(room, socket)
                   player          == Score(room.players[i], currentQid, isCorrect)
               IN  Effect([reg EXCEPT ![roomId].players[i] = player], "ok",
                          <<Emit("playerAnswered", <<>>, room.gameMaster,
                                 [NoData EXCEPT !.playerId = socket,
                                                !.name = player.name,
                                                !.answer = selectedAnswer,
                                                !.isCorrect = isCorrect])>>)
    ELSE Effect(reg, "RoomNotFound", <<>>)

SubmitAnswer(socket, roomId, playerAnswer, maxScore) ==
  LET e == SubmitAnswerEffect(rooms, socket, roomId, playerAnswer)
  IN  /\ Running
      /\ \A r \in DOMAIN e.rooms : \A i \in 1..Len(e.rooms[r].players) :
            e.rooms[r].players[i].totalScore <= maxScore
      /\ rooms' = e.rooms
      /\ last' = Step("submitAnswer", socket, roomId, "", playerAnswer, e.result, e.emits)
      /\ UNCHANGED <<joined, creating, advancing, materialized>>

----------------------------------------------------------------------------
(* quiz:nextRound                                                          *)

\* A slip: the reset also clears the cumulative score and rank.
StartRoundClearingTotals(room, roundQuestions) ==
  [room EXCEPT
     !.currentProgress.roundQuestions = roundQuestions,
     !.currentProgress.currentQuestion = 1,
     !.players = [i \in 1..Len(room.players) |->
                    [room.players[i] EXCEPT !.currentRoundScore = 0,
                                            !.currentRoundAnswers = <<>>,
                                            !.endOfRoundRank = Null,
                                            !.totalScore = 0,
                                            !.overallRank = Null]]]

\* nextRound after generateRound has returned: the new round data and the
\* reset of every player's round fields.
StartRound(room, roundQuestions) ==
  [room EXCEPT
     !.currentProgress.roundQuestions = roundQuestions,
     !.currentProgress.currentQuestion = 1,
     !.players = [i \in 1..Len(room.players) |->
                    [room.players[i] EXCEPT !.currentRoundScore = 0,
                                            !.currentRoundAnswers = <<>>,
                                            !.endOfRoundRank = Null]]]

RoundStartEmits(roomId) == <<Emit("quiz:roundStart", roomId, "", NoData)>>

\* A slip: the players' round fields are reset before the questions are
\* awaited.
NextRoundBeginEagerReset(socket, roomId, maxPending, maxRounds) ==
  /\ Running
  /\ IF roomId \notin DOMAIN rooms
       THEN /\ last' = Step("nextRound", socket, roomId, "", Null, "RoomNotFound", <<>>)
            /\ UNCHANGED <<rooms, joined, creating, advancing, materialized>>
       ELSE LET room == rooms[roomId]
                nextCategoryId == NextCategoryId(room.currentProgress.currentRound,
                                                 room.rounds)
            IN  IF nextCategoryId = Null
                  THEN /\ rooms' = [rooms EXCEPT ![roomId] = StartRound(room, EndOfRoundSentinel)]
                       /\ last' = Step("nextRound", socket, roomId, "", Null, "ok",
                                       RoundStartEmits(room.roomId))
                       /\ UNCHANGED <<joined, creating, advancing, materialized>>
                  ELSE /\ Pending < maxPending
                       /\ Len(materialized[roomId]) < maxRounds
                       /\ advancing' = advancing (+) SetToBag({
                            [socket |-> socket, roomId |-> roomId, orphan |-> FALSE,
                             request |-> Request(nextCategoryId, room)]})
                       /\ rooms' = [rooms EXCEPT ![roomId] =
                            StartRound(room, room.currentProgress.roundQuestions)]
                       /\ last' = Step("nextRound", socket, roomId, "", Null, "pending", <<>>)
                       /\ UNCHANGED <<joined, creating, materialized>>

\* nextRound up to the await.  When the plan is exhausted generateRound
\* returns "end of round" without fetching, and the handler goes on with
\* that string as the round's questions before any other event is handled.
NextRoundBegin(socket, roomId, maxPending, maxRounds) ==
  /\ Running
  /\ IF roomId \notin DOMAIN rooms
       THEN /\ last' = Step("nextRound", socket, roomId, "", Null, "RoomNotFound", <<>>)
            /\ UNCHANGED <<rooms, joined, creating, advancing, materialized>>
       ELSE LET room == rooms[roomId]
                nextCategoryId == NextCategoryId(room.currentProgress.currentRound,
                                                 room.rounds)
            IN  IF nextCategoryId = Null
                  THEN /\ rooms' = [rooms EXCEPT ![roomId] = StartRound(room, EndOfRoundSentinel)]
                       /\ last' = Step("nextRound", socket, roomId, "", Null, "ok",
                                       RoundStartEmits(room.roomId))
                       /\ UNCHANGED <<joined, creating, advancing, materialized>>
                  ELSE /\ Pending < maxPending
                       /\ Len(materialized[roomId]) < maxRounds
                       /\ advancing' = advancing (+) SetToBag({
                            [socket |-> socket, roomId |-> roomId, orphan |-> FALSE,
                             request |-> Request(nextCategoryId, room)]})
                       /\ last' = Step("nextRound", socket, roomId, "", Null, "pending", <<>>)
                       /\ UNCHANGED <<rooms, joined, creating, materialized>>

\* A slip: generateRound records the next category before the fetch, so a
\* failed fetch leaves it in the room.
NextRoundEndEarlyCategory(call, count, draws) ==
  LET category == call.request.category
      roomId == call.roomId
      early == IF call.orphan THEN rooms
               ELSE [rooms EXCEPT ![roomId].currentProgress.currentRound = category]
  IN  /\ Running
      /\ BagIn(call, advancing)
      /\ advancing' = advancing (-) SetToBag({call})
      /\ UNCHANGED <<joined, creating>>
      /\ IF count < 0
           THEN /\ last' = Step("nextRound", call.socket, roomId, "", Null,
                                "RoundGenerationFailed", <<>>)
                /\ rooms' = early
                /\ UNCHANGED materialized
           ELSE /\ last' = Step("nextRound", call.socket, roomId, "", count, "ok",
                                RoundStartEmits(roomId))
                /\ IF call.orphan
                     THEN UNCHANGED <<rooms, materialized>>
                     ELSE /\ rooms' = [early EXCEPT ![roomId] =
                               StartRound(@, FormattedQuestions(category, count, draws))]
                          /\ materialized' = [materialized EXCEPT ![roomId] = Append(@, category)]

\* A slip: the next category is looked up when the fetch has resolved, from
\* the room's current category at that moment.
NextRoundEndLateCategory(call, count, draws) ==
  LET roomId == call.roomId
      late == NextCategoryId(rooms[roomId].currentProgress.currentRound,
                             rooms[roomId].rounds)
      category == IF late = Null THEN call.request.category ELSE late
  IN  /\ Running
      /\ BagIn(call, advancing)
      /\ advancing' = advancing (-) SetToBag({call})
      /\ UNCHANGED <<joined, creating>>
      /\ IF count < 0
           THEN /\ last' = Step("nextRound", call.socket, roomId, "", Null,
                                "RoundGenerationFailed", <<>>)
                /\ UNCHANGED <<rooms, materialized>>
           ELSE /\ last' = Step("nextRound", call.socket, roomId, "", count, "ok",
                                RoundStartEmits(roomId))
                /\ IF call.orphan
                     THEN UNCHANGED <<rooms, materialized>>
                     ELSE /\ rooms' = [rooms EXCEPT ![roomId] =
                               StartRound([@ EXCEPT !.currentProgress.currentRound = category],
                                          FormattedQuestions(category, count, draws))]
                          /\ materialized' = [materialized EXCEPT ![roomId] = Append(@, category)]

\* nextRound after the fetch has settled.  count = -1: the fetch failed.
\* The step's `num` is the number of questions the fetch returned.
NextRoundEnd(call, count, draws) ==
  LET category == call.request.category
      roomId == call.roomId
  IN  /\ Running
      /\ BagIn(call, advancing)
      /\ advancing' = advancing (-) SetToBag({call})
      /\ UNCHANGED <<joined, creating>>
      /\ IF count < 0
           THEN /\ last' = Step("nextRound", call.socket, roomId, "", Null,
                                "RoundGenerationFailed", <<>>)
                /\ UNCHANGED <<rooms, materialized>>
           ELSE /\ last' = Step("nextRound", call.socket, roomId, "", count, "ok",
                                RoundStartEmits(roomId))
                /\ IF call.orphan
                     THEN UNCHANGED <<rooms, materialized>>
                     ELSE /\ rooms' = [rooms EXCEPT ![roomId] =
                               StartRound([@ EXCEPT !.currentProgress.currentRound = category],
                                          FormattedQuestions(category, count, draws))]
                          /\ materialized' = [materialized EXCEPT ![roomId] = Append(@, category)]

----------------------------------------------------------------------------
(* The events and their inputs.                                            *)

Seqs(S, n) == UNION {[1..k -> S] : k \in 1..n}

\* The number of results of a fetch, by its outcome.
ResultCount(outcome, request) ==
  CASE outcome = "results"   -> request.amount
    [] outcome = "noResults" -> 0
    [] outcome = "error"     -> -1

\* The shuffle draws of `count` results of two answers each.
ShuffleDraws(I, count) == [1..count -> [1..1 -> I.shuffles]]

CreateEvents(I) ==
  \/ \E s \in I.masters, p \in I.payloads, d \in Seqs(I.rands, MaxDraws) :
       CreateBegin(s, p, d, I.maxPending)
  \/ \E c \in BagToSet(creating), o \in I.outcomes :
       \E d \in ShuffleDraws(I, ResultCount(o, c.request)) :
         CreateEnd(c, ResultCount(o, c.request), d)

RoomEvents(I) ==
  \/ \E s \in I.controllers, r \in I.codes : StartQuiz(s, r)
  \/ \E s \in I.sockets, r \in I.codes, n \in I.names : PlayerJoin(s, r, n)
  \/ \E s \in I.controllers, r \in I.codes, q \in I.qids : NextQuestion(s, r, q)
  \/ \E s \in I.controllers, r \in I.codes : EndOfRound(s, r)
  \/ \E s \in I.controllers, r \in I.codes :
       NextRoundBegin(s, r, I.maxPending, I.maxRounds)
  \/ \E c \in BagToSet(advancing), o \in I.outcomes :
       \E d \in ShuffleDraws(I, ResultCount(o, c.request)) :
         NextRoundEnd(c, ResultCount(o, c.request), d)
  \/ \E s \in I.sockets, r \in I.codes, a \in I.answers :
       SubmitAnswer(s, r, a, I.maxScore)
  \/ \E s \in I.controllers, r \in I.codes : EndOfGame(s, r)

NextOver(I) == CreateEvents(I) \/ RoomEvents(I)

Codes(rands) == {RoomCode(r) : r \in rands}

Payload(questionPerRound, rounds) ==
  [questionTimeLimit |-> Undefined, questionPerRound |-> questionPerRound,
   rounds |-> rounds, mode |-> 1]

\* Math.random() = 0: the only room code is 100000.
Zero == <<0, 1>>
\* Math.random() = 1/2
Half == <<1, 2>>

\* Spec: one room played by two connections, one suspended call at a time
\* (events are handled one after the other, no fetch overlaps another).
\* Connection s1 creates and drives the room; both connections play.  The
\* shuffle swaps the two answers of a question: choice 2 is the correct one,
\* choice 1 the wrong one, choice 3 is out of range.
Game ==
  [ masters     |-> {"s1"},
    controllers |-> {"s1"},
    sockets     |-> {"s1", "s2"},
    names       |-> {"Ann"},
    payloads    |-> {Payload(1, <<9, 12>>)},
    rands       |-> {Zero},
    codes       |-> Codes({Zero}),
    qids        |-> {1, 2},
    answers     |-> {1, 2, 3},
    outcomes    |-> {"results", "noResults", "error"},
    shuffles    |-> {Zero},
    maxPending  |-> 1,
    maxScore    |-> MaxScore,
    maxRounds   |-> 2 ]

Next == NextOver(Game)

Spec == Init /\ [][Next]_vars

\* SpecLobby: the same room with two display names and the least of the
\* play (one answer choice, one question id, answers in provider order).
Lobby ==
  [ Game EXCEPT !.names = {"Ann", "Bob"}, !.qids = {1}, !.answers = {1},
                !.outcomes = {"results", "error"}, !.shuffles = {Half},
                !.maxScore = 1 ]

NextLobby == NextOver(Lobby)

SpecLobby == Init /\ [][NextLobby]_vars

\* SpecRounds: one connection, the round plans (with and without repeated
\* categories), up to MaxRounds rounds.
Rounds ==
  [ Lobby EXCEPT !.sockets = {"s1"}, !.names = {"Ann"},
                 !.payloads = {Payload(1, <<9>>), Payload(1, <<9, 12>>),
                               Payload(1, <<10, 10, 12>>), Payload(1, <<10, 12, 10>>)},
                 !.maxRounds = MaxRounds ]

NextRounds == NextOver(Rounds)

SpecRounds == Init /\ [][NextRounds]_vars

\* SpecRegistry: the registry alone.  Overlapping creates by two
\* connections over three room codes (100000, 550000, 999999).
Registry ==
  [ Game EXCEPT !.masters = {"s1", "s2"},
                !.payloads = {Payload(Undefined, <<9>>)},
                !.rands = {Zero, Half, <<899999, 900000>>},
                !.codes = Codes({Zero, Half, <<899999, 900000>>}),
                !.outcomes = {"results", "error"}, !.shuffles = {Half},
                !.maxPending = MaxPending ]

NextRegistry == CreateEvents(Registry)

SpecRegistry == Init /\ [][NextRegistry]_vars

\* SpecRank: endOfRound and endOfGame on a started room in its second
\* round, for every list of up to MaxRankPlayers players whose round score
\* is 0..MaxScore and whose cumulative score is the round score plus 0 or 1,
\* and for the score lists [10,10,7] and [5,4,3,3,1].
MaxRankPlayers == 3

RankSockets == <<"p1", "p2", "p3", "p4", "p5">>

ScorePairs == {<<c, c + k>> : c \in 0..MaxScore, k \in 0..1}

ExampleScores ==
  { [i \in 1..3 |-> <<(<<10, 10, 7>>)[i], (<<10, 10, 7>>)[i]>>],
    [i \in 1..5 |-> <<(<<5, 4, 3, 3, 1>>)[i], (<<5, 4, 3, 3, 1>>)[i]>>] }

RankInputs ==
  ExampleScores \cup UNION {[1..n -> ScorePairs] : n \in 1..MaxRankPlayers}

\* The room after create, joins, startQuiz, a next round and answers: player i
\* has round score scores[i][1] and cumulative score scores[i][2].
RankRoom(scores) ==
  LET created == NewRoom(RoomCode(Zero), "s1", Undefined, 1, <<9, 12>>, 1)
      played(i) == [InitializePlayer(RankSockets[i], "Ann") EXCEPT
                      !.currentRoundScore = scores[i][1],
                      !.totalScore = scores[i][2],
                      !.currentRoundAnswers =
                         IF scores[i][1] > 0 THEN (1 :> TRUE) ELSE <<>>]
  IN  [created EXCEPT
         !.players = [i \in 1..Len(scores) |-> played(i)],
         !.quizStarted = TRUE,
         !.currentProgress.currentRound = 12,
         !.currentProgress.roundQuestions = FormattedQuestions(12, 1, <<<<Half>>>>)]

InitRank ==
  \E scores \in RankInputs :
    /\ rooms = (RoomCode(Zero) :> RankRoom(scores))
    /\ joined = {<<"s1", RoomCode(Zero)>>}
                  \cup {<<RankSockets[i], RoomCode(Zero)>> : i \in 1..Len(scores)}
    /\ creating = EmptyBag
    /\ advancing = EmptyBag
    /\ materialized = (RoomCode(Zero) :> <<9, 12>>)
    /\ last = Step("init", "", <<>>, "", Null, "ok", <<>>)

NextRank ==
  \/ EndOfRound("s1", RoomCode(Zero))
  \/ EndOfGame("s1", RoomCode(Zero))

SpecRank == InitRank /\ [][NextRank]_vars

\* SpecOverlap: one room with one player, created by s1 and played by s2,
\* in which two nextRound calls may be suspended at the same time; their
\* fetches return one question or none.
Overlap ==
  [ Game EXCEPT !.sockets = {"s2"}, !.payloads = {Payload(1, <<9, 12, 10>>)},
                !.qids = {1}, !.answers = {1, 2},
                !.outcomes = {"results", "noResults", "error"},
                !.maxPending = 2, !.maxRounds = MaxRounds ]

\* A create is not overlapped with another call.
NextOverlap == CreateEvents([Overlap EXCEPT !.maxPending = 1]) \/ RoomEvents(Overlap)

SpecOverlap == Init /\ [][NextOverlap]_vars

\* SpecGuests: the room of SpecLobby when the control events (quiz:start,
\* quiz:nextQuestion, quiz:endOfRound, quiz:nextRound, quiz:endOfGame) also
\* arrive from s2, a connection that did not create the room.
Guests == [ Lobby EXCEPT !.controllers = {"s1", "s2"}, !.names = {"Ann"} ]

NextGuests == NextOver(Guests)

SpecGuests == Init /\ [][NextGuests]_vars

\* SpecTwoRooms: two rooms (codes 100000 and 550000) created one after the
\* other by s1 and joined by s2, which may play in both; one suspended call
\* at a time.
TwoRooms ==
  [ Lobby EXCEPT !.sockets = {"s2"}, !.names = {"Ann"},
                 !.rands = {Zero, Half}, !.codes = Codes({Zero, Half}) ]

NextTwoRooms == NextOver(TwoRooms)

SpecTwoRooms == Init /\ [][NextTwoRooms]_vars

\* SpecPlan: the round generator on every round plan of up to MaxRounds
\* categories.  A create applies it with no current category; a nextRound
\* applies it to a room holding the plan and any of the categories as its
\* current one (also one the plan does not hold, which the generator accepts).
PlanCategories == {9, 10, 12}

Plans == Seqs(PlanCategories, MaxRounds)

Plan ==
  [ Lobby EXCEPT !.sockets = {"s1"}, !.names = {"Ann"},
                 !.payloads = {Payload(1, rounds) : rounds \in Plans},
                 !.maxRounds = MaxRounds ]

PlanRoom(rounds, currentRound) ==
  [ NewRoom(RoomCode(Zero), "s1", Undefined, 1, rounds, 1) EXCEPT
      !.currentProgress.currentRound = currentRound,
      !.currentProgress.roundQuestions = FormattedQuestions(currentRound, 1, <<<<Half>>>>) ]

InitPlan ==
  \/ Init
  \/ \E rounds \in Plans, currentRound \in PlanCategories :
       /\ rooms = (RoomCode(Zero) :> PlanRoom(rounds, currentRound))
       /\ joined = {<<"s1", RoomCode(Zero)>>}
       /\ creating = EmptyBag
       /\ advancing = EmptyBag
       /\ materialized = (RoomCode(Zero) :> <<currentRound>>)
       /\ last = Step("init", "", <<>>, "", Null, "ok", <<>>)

NextPlan ==
  \/ CreateEvents(Plan)
  \/ \E s \in Plan.controllers, r \in Plan.codes :
       NextRoundBegin(s, r, Plan.maxPending, Plan.maxRounds)
  \/ \E c \in BagToSet(advancing), o \in Plan.outcomes :
       \E d \in ShuffleDraws(Plan, ResultCount(o, c.request)) :
         NextRoundEnd(c, ResultCount(o, c.request), d)

SpecPlan == InitPlan /\ [][NextPlan]_vars

----------------------------------------------------------------------------
(* The claims.                                                             *)

\* The room a step was addressed to, before and after the step.
Before == rooms[last'.roomId]
After  == rooms'[last'.roomId]

Did(op, result) == last.op = op /\ last.result = result
Does(op, result) == last'.op = op /\ last'.result = result

\* C1: room codes are unique among rooms also when creates overlap: a create
\* that succeeds returns a code no registered room has, so that no two
\* successful creates return the same code and no registered room is
\* replaced by a later create.
C1_CreatedCodeIsFresh ==
  [][Does("create", "ok") => last'.roomId \notin DOMAIN rooms]_vars

\* C2: whenever the registry does not hold all codes, the code that
\* generateUniqueRoomId returns is a six-digit number in 100000..999999 and
\* is not a key of the registry at that moment; this for the code a create
\* has just picked and for every sequence of draws the loop may see.
C2_GeneratedCodeIsFree ==
  /\ Did("create", "pending") =>
       /\ ToNumber(last.roomId) \in 100000..999999
       /\ Len(last.roomId) = 6
       /\ last.roomId \notin DOMAIN rooms
  /\ \A draws \in Seqs(Registry.rands, MaxDraws) :
       LET roomId == GenerateUniqueRoomId(rooms, draws)
       IN  roomId # Looping =>
             /\ ToNumber(roomId) \in 100000..999999
             /\ roomId \notin DOMAIN rooms

\* C2 witness: a create has just picked a code while other codes are
\* registered, one of them the code of the loop's first draw.
C2_Witness ==
  /\ Did("create", "pending")
  /\ DOMAIN rooms # {}
  /\ last.roomId \notin DOMAIN rooms
  /\ \E draws \in Seqs(Registry.rands, MaxDraws) :
       /\ RoomCode(draws[1]) \in DOMAIN rooms
       /\ GenerateUniqueRoomId(rooms, draws) = last.roomId

\* The connection ids of a room's players, in key order.
Ids(room) == [i \in 1..Len(room.players) |-> room.players[i].id]

\* C3: once startQuiz has succeeded for a room, the room stays started, its
\* set of player ids never changes, and every join addressed to it, by a new
\* connection or by one of its players, is rejected with QuizAlreadyStarted.
\* (A create that registers a room under the code starts another room.)
C3_StartedRoomIsClosed ==
  [][\A r \in DOMAIN rooms :
       (rooms[r].quizStarted /\ ~(Does("create", "ok") /\ last'.roomId = r)) =>
          /\ r \in DOMAIN rooms'
          /\ rooms'[r].quizStarted
          /\ Ids(rooms'[r]) = Ids(rooms[r])
          /\ (last'.op = "playerJoin" /\ last'.roomId = r) =>
                last'.result = "QuizAlreadyStarted"]_vars

\* C3 witness: a join by a connection without a player in the started room
\* has just been rejected.
C3_Witness ==
  /\ Did("playerJoin", "QuizAlreadyStarted")
  /\ rooms[last.roomId].quizStarted
  /\ last.socket \notin PlayerIds(rooms[last.roomId])

\* C4: in Lobby a join by a connection that already has a player in the room
\* succeeds, changes nothing of the room (the player's record keeps its name,
\* scores, answers and ranks whatever name is supplied, no player is added)
\* and sends no player-joined notification.
C4_RejoinChangesNothing ==
  [][(/\ last'.op = "playerJoin"
      /\ last'.roomId \in DOMAIN rooms
      /\ ~Before.quizStarted
      /\ last'.socket \in PlayerIds(Before)) =>
        /\ last'.result = "ok"
        /\ rooms' = rooms
        /\ last'.emits = <<>>]_vars

\* C4 witness: a player has just joined again under another name.
C4_Witness ==
  /\ Did("playerJoin", "ok")
  /\ last.emits = <<>>
  /\ last.socket \in PlayerIds(rooms[last.roomId])
  /\ PlayerOf(rooms[last.roomId], last.socket).name # last.name

\* C5: a startQuiz succeeds only on a room in Lobby with at least one player
\* (so a second startQuiz neither succeeds nor broadcasts quiz-started again).
C5_StartOnlyInLobby ==
  [][Does("startQuiz", "ok") =>
       ~Before.quizStarted /\ Len(Before.players) >= 1]_vars

\* C6: startQuiz on an existing room without players is rejected with
\* NoPlayers, changes nothing (quizStarted stays false) and emits nothing.
C6_StartNeedsPlayers ==
  [][(/\ last'.op = "startQuiz"
      /\ last'.roomId \in DOMAIN rooms
      /\ Len(Before.players) = 0) =>
        /\ last'.result = "NoPlayers"
        /\ rooms' = rooms
        /\ ~After.quizStarted
        /\ last'.emits = <<>>]_vars

\* C6 witness: a startQuiz on a room without players has just been rejected.
C6_Witness ==
  /\ Did("startQuiz", "NoPlayers")
  /\ last.roomId \in DOMAIN rooms
  /\ rooms[last.roomId].players = <<>>

\* C7: a successful submitAnswer adds exactly 1 to the player's
\* currentRoundScore and totalScore when the 1-based choice selects the
\* correct answer and nothing otherwise (wrong or out of range), records the
\* correctness under the current question index, and changes no other player;
\* on every submission, repeated ones included.
C7_SubmitScores ==
  [][Does("submitAnswer", "ok") =>
       LET qid == Before.currentProgress.currentQuestion
           q   == Before.currentProgress.roundQuestions.questions[qid]
           a   == last'.num
           hit == a \in 1..Len(q.allAnswers) /\ q.allAnswers[a] = q.correct_answer
           inc == IF hit THEN 1 ELSE 0
           i   == PlayerIndex(Before, last'.socket)
       IN  /\ Len(After.players) = Len(Before.players)
           /\ After.players[i].currentRoundScore = Before.players[i].currentRoundScore + inc
           /\ After.players[i].totalScore = Before.players[i].totalScore + inc
           /\ qid \in DOMAIN After.players[i].currentRoundAnswers
           /\ After.players[i].currentRoundAnswers[qid] = hit
           /\ \A k \in 1..Len(Before.players) :
                k # i => After.players[k] = Before.players[k]]_vars

\* C7 witness: a player of a two-player room has just been scored a second
\* time for the same question.
C7_Witness ==
  /\ Did("submitAnswer", "ok")
  /\ Len(rooms[last.roomId].players) = 2
  /\ LET player == PlayerOf(rooms[last.roomId], last.socket)
     IN  /\ player.currentRoundScore = 2
         /\ DOMAIN player.currentRoundAnswers = {1}

\* C8: a successful nextRound sets every player's currentRoundScore to 0,
\* currentRoundAnswers to empty and endOfRoundRank to absent, sets the
\* question index to 1 and replaces roundQuestions (by the questions fetched
\* for the next category of the plan, or by the exhaustion string); each
\* player's totalScore, overallRank and name, the player set, quizStarted and
\* the round plan stay as they were.
C8_NextRoundResetsRoundOnly ==
  [][Does("nextRound", "ok") =>
       /\ Len(After.players) = Len(Before.players)
       /\ \A i \in 1..Len(Before.players) :
            After.players[i] = [Before.players[i] EXCEPT
                                  !.currentRoundScore = 0,
                                  !.currentRoundAnswers = <<>>,
                                  !.endOfRoundRank = Null]
       /\ After.currentProgress.currentQuestion = 1
       /\ After.quizStarted = Before.quizStarted
       /\ After.rounds = Before.rounds
       /\ LET next == NextCategoryId(Before.currentProgress.currentRound, Before.rounds)
              rq   == After.currentProgress.roundQuestions
          IN  IF next = Null
                THEN rq = EndOfRoundSentinel
                ELSE /\ After.currentProgress.currentRound = next
                     /\ rq.type = "object"
                     /\ \A k \in 1..Len(rq.questions) : rq.questions[k].question[1] = next]_vars

\* C8 witness: a round has just started for a player who keeps a cumulative
\* score and an overall rank from the round before.
C8_Witness ==
  /\ Did("nextRound", "ok")
  /\ rooms[last.roomId].currentProgress.roundQuestions.type = "object"
  /\ rooms[last.roomId].currentProgress.roundQuestions.questions # <<>>
  /\ \E i \in 1..Len(rooms[last.roomId].players) :
       LET player == rooms[last.roomId].players[i]
       IN  /\ player.totalScore > 0
           /\ player.overallRank # Null
           /\ player.currentRoundScore = 0

\* The ranks of a room's players in a score dimension, in key order.
RoundScores(room)  == [i \in 1..Len(room.players) |-> room.players[i].currentRoundScore]
TotalScores(room)  == [i \in 1..Len(room.players) |-> room.players[i].totalScore]
RoundRanks(room)   == [i \in 1..Len(room.players) |-> room.players[i].endOfRoundRank]
OverallRanks(room) == [i \in 1..Len(room.players) |-> room.players[i].overallRank]

\* 1 plus the number of entries strictly greater than entry i
CompetitionRank(scores, i) ==
  1 + Cardinality({k \in 1..Len(scores) : scores[k] > scores[i]})

\* C9: right after endOfRound or endOfGame every player's endOfRoundRank
\* (overallRank) is 1 plus the number of players with a strictly greater
\* currentRoundScore (totalScore); so [10,10,7] ranks [1,1,3] and
\* [5,4,3,3,1] ranks [1,2,3,3,5].
C9_RanksCountGreaterScores ==
  (last.op \in {"endOfRound", "endOfGame"} /\ last.result = "ok") =>
     LET room == rooms[last.roomId]
     IN  /\ \A i \in 1..Len(room.players) :
              /\ room.players[i].endOfRoundRank = CompetitionRank(RoundScores(room), i)
              /\ room.players[i].overallRank = CompetitionRank(TotalScores(room), i)
         /\ RoundScores(room) = <<10, 10, 7>> => RoundRanks(room) = <<1, 1, 3>>
         /\ TotalScores(room) = <<5, 4, 3, 3, 1>> => OverallRanks(room) = <<1, 2, 3, 3, 5>>

\* C9 witness: two players tied at the top of the round and a third behind
\* them have just been ranked 1, 1 and 3.
C9_Witness ==
  /\ Did("endOfRound", "ok")
  /\ RoundScores(rooms[last.roomId]) = <<1, 0, 1>>
  /\ RoundRanks(rooms[last.roomId]) = <<1, 3, 1>>

IsPrefix(s, t) == Len(s) <= Len(t) /\ SubSeq(t, 1, Len(s)) = s

\* C10: the categories a room's rounds are fetched for (by the create and by
\* the nextRound calls that follow) are the round plan's, in the plan's order.
C10_RoundsFollowPlan ==
  \A r \in DOMAIN rooms : IsPrefix(materialized[r], rooms[r].rounds)

\* A step that calls nextRound on a registered room (the step that resumes a
\* suspended call takes it out of `advancing`).
NextRoundCalled ==
  /\ last'.op = "nextRound"
  /\ last'.roomId \in DOMAIN rooms
  /\ BagCardinality(advancing') >= BagCardinality(advancing)

\* The calls a step suspends at a fetch.
Fetches(before, after) == BagToSet(after (-) before)

\* C11: a nextRound on a room whose current category equals the last
\* element of its round plan yields the exhaustion result without a fetch.
C11_LastElementExhausts ==
  [][(NextRoundCalled /\
      Before.currentProgress.currentRound = Before.rounds[Len(Before.rounds)]) =>
        /\ advancing' = advancing
        /\ last'.result # "pending"
        /\ After.currentProgress.roundQuestions = EndOfRoundSentinel]_vars

\* C12: the generator chooses the next category by the first matching
\* index: plan[0] without a current category (a create); otherwise, with i the
\* first index of the plan equal to the current category, plan[i+1] when i
\* exists and is not the last index, and exhaustion (no fetch) otherwise.
\* With plan [10,10,12] a create fetches 10 and current 10 fetches 10.
C12_FirstMatchingIndex ==
  [][/\ Does("create", "pending") =>
          /\ Fetches(creating, creating') # {}
          /\ \A c \in Fetches(creating, creating') :
                /\ c.request.category = c.room.rounds[1]
                /\ c.room.rounds = <<10, 10, 12>> => c.request.category = 10
     /\ NextRoundCalled =>
          LET plan   == Before.rounds
              cur    == Before.currentProgress.currentRound
              firsts == {i \in 1..Len(plan) :
                           plan[i] = cur /\ \A k \in 1..(i - 1) : plan[k] # cur}
          IN  /\ (firsts = {} \/ firsts = {Len(plan)}) =>
                   /\ Fetches(advancing, advancing') = {}
                   /\ After.currentProgress.roundQuestions = EndOfRoundSentinel
              /\ \A i \in firsts : i < Len(plan) =>
                   /\ Fetches(advancing, advancing') # {}
                   /\ \A c \in Fetches(advancing, advancing') :
                         c.request.category = plan[i + 1]
              /\ (plan = <<10, 10, 12>> /\ cur = 10) =>
                   \E c \in Fetches(advancing, advancing') : c.request.category = 10]_vars

\* C12 witness: a nextRound on plan [10,10,12] with current category 10 is
\* suspended at the fetch of category 10.
C12_Witness ==
  /\ Did("nextRound", "pending")
  /\ rooms[last.roomId].rounds = <<10, 10, 12>>
  /\ rooms[last.roomId].currentProgress.currentRound = 10
  /\ \E c \in BagToSet(advancing) : c.request.category = 10

\* C13: a nextRound on a room whose plan is exhausted (the generator has no
\* next category, as on any single-category plan) replies the distinct
\* RoundPlanExhausted result, stores nothing as the room's roundQuestions,
\* resets no round score and broadcasts no round start.
C13_ExhaustionIsTerminal ==
  [][(NextRoundCalled /\
      NextCategoryId(Before.currentProgress.currentRound, Before.rounds) = Null) =>
        /\ last'.result = "RoundPlanExhausted"
        /\ rooms' = rooms
        /\ last'.emits = <<>>]_vars

\* Question index qid is a key of roundQuestions, a mapping from 1-based
\* indices to questions.
HasQuestion(room, qid) ==
  /\ room.currentProgress.roundQuestions.type = "object"
  /\ qid \in 1..Len(room.currentProgress.roundQuestions.questions)

\* C14: in every state of a registered room the current question index is a
\* key of the room's roundQuestions.
C14_CurrentQuestionExists ==
  \A r \in DOMAIN rooms : HasQuestion(rooms[r], rooms[r].currentProgress.currentQuestion)

\* The suspended calls a step resumes.
Resumed(before, after) == BagToSet(before (-) after)

\* C15: when the fetch of a nextRound fails, the caller gets the round
\* generation error and the step commits nothing: the registry (every room's
\* roundQuestions, current category, question index and players) is as it
\* was, nothing is emitted, and the generator's next category for the room is
\* still the one the failed call asked for, so a later nextRound retries it.
C15_FailedFetchCommitsNothing ==
  [][(last'.op = "nextRound" /\ last'.result \notin {"ok", "pending", "RoomNotFound"}) =>
       /\ last'.result = "RoundGenerationFailed"
       /\ rooms' = rooms
       /\ joined' = joined
       /\ last'.emits = <<>>
       /\ Resumed(advancing, advancing') # {}
       /\ \A c \in Resumed(advancing, advancing') :
             /\ c.roomId = last'.roomId
             /\ NextCategoryId(After.currentProgress.currentRound, After.rounds)
                  = c.request.category]_vars

\* C15 witness: the fetch of a nextRound has just failed for a room with a
\* round in play: a question, and a player with a round score and an answer.
C15_Witness ==
  /\ Did("nextRound", "RoundGenerationFailed")
  /\ HasQuestion(rooms[last.roomId], 1)
  /\ \E i \in 1..Len(rooms[last.roomId].players) :
       /\ rooms[last.roomId].players[i].currentRoundScore > 0
       /\ rooms[last.roomId].players[i].currentRoundAnswers # <<>>

\* C16: when the fetch of the first round fails, create replies an error
\* and the registry is as it was (no room under the generated code, no
\* channel joined); and no step leaves a room in the registry whose
\* roundQuestions is absent.
C16_FailedCreateRegistersNothing ==
  [][/\ (last'.op = "create" /\ last'.result \notin {"ok", "pending"}) =>
          /\ last'.result = "QuestionGenerationFailed"
          /\ rooms' = rooms
          /\ joined' = joined
          /\ last'.emits = <<>>
     /\ \A r \in DOMAIN rooms' :
          rooms'[r].currentProgress.roundQuestions # NullQuestions]_vars

\* C16 witness: a create has just failed, its code is free, and the registry
\* holds the room of another create.
C16_Witness ==
  /\ Did("create", "QuestionGenerationFailed")
  /\ last.roomId \notin DOMAIN rooms
  /\ DOMAIN rooms # {}

\* The events that name a room.
RoomOps == {"startQuiz", "playerJoin", "nextQuestion", "submitAnswer",
            "endOfRound", "nextRound", "endOfGame"}

\* C17: every operation on a roomId that is not in the registry replies
\* RoomNotFound, leaves the registry and the channels as they were, emits
\* nothing and suspends no call at a question fetch.
C17_UnknownRoomIsRejected ==
  [][(last'.op \in RoomOps /\ last'.roomId \notin DOMAIN rooms) =>
       /\ last'.result = "RoomNotFound"
       /\ rooms' = rooms
       /\ joined' = joined
       /\ last'.emits = <<>>
       /\ advancing' = advancing
       /\ creating' = creating]_vars

\* C17 witness: a nextRound has just been rejected for the code of a room
\* that a suspended create has picked and not yet registered.
C17_Witness ==
  /\ Did("nextRound", "RoomNotFound")
  /\ last.roomId \notin DOMAIN rooms
  /\ \E c \in BagToSet(creating) : c.room.roomId = last.roomId
  /\ advancing = EmptyBag

\* C18: a submitAnswer by a player of a room whose current question index
\* denotes no question of the round (after an out-of-range nextQuestion, after
\* the plan is exhausted) replies NoActiveQuestion, changes nothing of the
\* registry and emits nothing.
C18_NoActiveQuestion ==
  [][(/\ last'.op = "submitAnswer"
      /\ last'.roomId \in DOMAIN rooms
      /\ last'.socket \in PlayerIds(Before)
      /\ ~HasQuestion(Before, Before.currentProgress.currentQuestion)) =>
        /\ last'.result = "NoActiveQuestion"
        /\ rooms' = rooms
        /\ last'.emits = <<>>]_vars

\* C19: no handler throws: every event ends with its callback called, with
\* an error or a result (or is suspended at a fetch and will call it).
C19_NoHandlerThrows ==
  last.result # "TypeError"

\* C20: a successful submitAnswer emits exactly one playerAnswered, to the
\* connection of the room's game master and to no channel, with the id and
\* name of the submitting player and the correctness of the answer; any
\* other submitAnswer emits nothing.
C20_AnswerGoesToGameMaster ==
  [][last'.op = "submitAnswer" =>
       IF last'.result = "ok"
         THEN LET qid == Before.currentProgress.currentQuestion
                  q   == Before.currentProgress.roundQuestions.questions[qid]
                  a   == last'.num
                  hit == a \in 1..Len(q.allAnswers) /\ q.allAnswers[a] = q.correct_answer
                  e   == last'.emits[1]
              IN  /\ Len(last'.emits) = 1
                  /\ e.event = "playerAnswered"
                  /\ e.toSocket = Before.gameMaster
                  /\ e.toRoom = <<>>
                  /\ e.data.playerId = last'.socket
                  /\ e.data.name = PlayerOf(Before, last'.socket).name
                  /\ e.data.isCorrect = hit
         ELSE last'.emits = <<>>]_vars

\* C20 witness: a wrong answer of a player who is not the game master, in a
\* room of two players, has just been notified.
C20_Witness ==
  /\ Did("submitAnswer", "ok")
  /\ Len(rooms[last.roomId].players) = 2
  /\ last.socket # rooms[last.roomId].gameMaster
  /\ Len(last.emits) = 1
  /\ last.emits[1].toSocket = rooms[last.roomId].gameMaster
  /\ ~last.emits[1].data.isCorrect

\* C21: an endOfRound (endOfGame) on a room of players P emits |P|
\* notifications of that event, the i-th to the connection of the i-th player
\* and to no channel, carrying that player's own record with the ranks just
\* computed (and so no other player's record).
C21_EachPlayerGetsOwnRecord ==
  (last.op \in {"endOfRound", "endOfGame"} /\ last.result = "ok") =>
     LET room == rooms[last.roomId]
     IN  /\ Len(last.emits) = Len(room.players)
         /\ \A i \in 1..Len(room.players) :
              LET e == last.emits[i]
              IN  /\ e.event = (IF last.op = "endOfRound" THEN "quiz:endOfRound"
                                                         ELSE "quiz:endOfGame")
                  /\ e.toSocket = room.players[i].id
                  /\ e.toRoom = <<>>
                  /\ e.data.playerData = room.players[i]
                  /\ e.data.playerData.endOfRoundRank = CompetitionRank(RoundScores(room), i)
                  /\ e.data.playerData.overallRank = CompetitionRank(TotalScores(room), i)

\* C21 witness: an endOfGame has just notified three players, the second of
\* them ranked last in the round.
C21_Witness ==
  /\ Did("endOfGame", "ok")
  /\ Len(last.emits) = 3
  /\ last.emits[2].toSocket = "p2"
  /\ last.emits[2].data.playerData.endOfRoundRank = 3
  /\ last.emits[1].data.playerData.endOfRoundRank = 1

\* C22: no step lowers a player's totalScore: a player of a room before and
\* after a step (a submitAnswer, a nextRound started, resumed or overlapped
\* with another, an endOfRound, endOfGame, nextQuestion, join or startQuiz)
\* has a totalScore not smaller than before.
C22_TotalScoreNeverDecreases ==
  [][\A r \in DOMAIN rooms \cap DOMAIN rooms' :
       \A i \in 1..Len(rooms[r].players), k \in 1..Len(rooms'[r].players) :
          rooms'[r].players[k].id = rooms[r].players[i].id =>
            rooms'[r].players[k].totalScore >= rooms[r].players[i].totalScore]_vars

\* C22 witness: the first of two overlapping nextRound calls has just
\* completed for a player who has a cumulative score.
C22_Witness ==
  /\ Did("nextRound", "ok")
  /\ \E c \in BagToSet(advancing) : c.roomId = last.roomId
  /\ \E i \in 1..Len(rooms[last.roomId].players) :
       /\ rooms[last.roomId].players[i].totalScore > 0
       /\ rooms[last.roomId].players[i].currentRoundScore = 0

\* The events the game master drives the quiz with.
ControlOps == {"startQuiz", "nextQuestion", "nextRound", "endOfRound", "endOfGame"}

\* C23: a control event that arrives from a connection other than the
\* room's game master changes nothing of the room.
C23_OnlyGameMasterControls ==
  [][(/\ last'.op \in ControlOps
      /\ last'.roomId \in DOMAIN rooms
      /\ last'.socket # Before.gameMaster) =>
        After = Before]_vars

\* The calls of nextRound on the room object registered under r that are
\* suspended at their fetch.
Suspended(calls, r) == {c \in BagToSet(calls) : c.roomId = r /\ ~c.orphan}

\* C24: a nextRound that suspends at the fetch has changed nothing of the
\* room; while it is suspended other events are handled on the room as it is,
\* on its prior round (a submitAnswer is scored against the current question
\* of that round); the new round (category, questions, question index 1,
\* round scores 0) is applied in the one step that resumes the call after
\* the fetch has resolved.
C24_RoundAppliedAfterFetch ==
  [][/\ Does("nextRound", "pending") =>
          /\ rooms' = rooms
          /\ materialized' = materialized
          /\ last'.emits = <<>>
     /\ \A r \in DOMAIN rooms :
          (Suspended(advancing, r) # {} /\ Resumed(advancing, advancing') = {}
             /\ last'.op # "nextRound") =>
            /\ rooms'[r].currentProgress.currentRound = rooms[r].currentProgress.currentRound
            /\ rooms'[r].currentProgress.roundQuestions = rooms[r].currentProgress.roundQuestions
            /\ Suspended(advancing', r) = Suspended(advancing, r)
     /\ (Does("submitAnswer", "ok") /\ Suspended(advancing, last'.roomId) # {}) =>
          LET qid == Before.currentProgress.currentQuestion
              q   == Before.currentProgress.roundQuestions.questions[qid]
              a   == last'.num
              hit == a \in 1..Len(q.allAnswers) /\ q.allAnswers[a] = q.correct_answer
              i   == PlayerIndex(Before, last'.socket)
              history == materialized[last'.roomId]
          IN  /\ q.question[1] = Before.currentProgress.currentRound
              /\ q.question[1] = history[Len(history)]
              /\ After.players[i].currentRoundAnswers[qid] = hit
              /\ After.players[i].totalScore =
                   Before.players[i].totalScore + (IF hit THEN 1 ELSE 0)
     /\ Does("nextRound", "ok") =>
          \A c \in Resumed(advancing, advancing') : ~c.orphan =>
            /\ After.currentProgress.currentRound = c.request.category
            /\ After.currentProgress.roundQuestions.type = "object"
            /\ \A k \in 1..Len(After.currentProgress.roundQuestions.questions) :
                 After.currentProgress.roundQuestions.questions[k].question[1]
                   = c.request.category
            /\ After.currentProgress.currentQuestion = 1
            /\ \A k \in 1..Len(After.players) : After.players[k].currentRoundScore = 0
            /\ materialized'[last'.roomId] =
                 Append(materialized[last'.roomId], c.request.category)]_vars

\* C24 witness: a player has just scored on the question of the round in
\* play while a nextRound for another category is suspended.
C24_Witness ==
  /\ Did("submitAnswer", "ok")
  /\ \E c \in Suspended(advancing, last.roomId) :
       c.request.category # rooms[last.roomId].currentProgress.currentRound
  /\ PlayerOf(rooms[last.roomId], last.socket).currentRoundScore > 0

\* The second of two overlapping nextRound calls on a room resumes with
\* success: the room's last round was fetched for the category this call
\* asked for, by the call that overlapped it (the plans of SpecOverlap
\* repeat no category, so that call started from the same category).
SecondCompletes ==
  /\ Does("nextRound", "ok")
  /\ Resumed(advancing, advancing') # {}
  /\ \A c \in Resumed(advancing, advancing') :
       /\ ~c.orphan
       /\ Len(materialized[c.roomId]) >= 2
       /\ materialized[c.roomId][Len(materialized[c.roomId])] = c.request.category

\* C25: when two nextRound calls on a room overlap (both start before
\* either fetch resolves) and both fetches succeed, both calls reply success,
\* and after the second the current category is one plan position past the
\* one both calls started from (the plan has advanced once, not twice),
\* roundQuestions is what the second fetch returned, and
\* every player's round score and answers are reset again while the
\* cumulative score keeps the points scored between the two completions.
C25_OverlappingRoundsAdvanceOnce ==
  [][SecondCompletes =>
          LET history == materialized[last'.roomId]
              start   == history[Len(history) - 1]
              plan    == Before.rounds
          IN  /\ Before.currentProgress.currentRound = history[Len(history)]
              /\ After.currentProgress.currentRound = history[Len(history)]
              /\ \E i \in 1..(Len(plan) - 1) :
                    /\ plan[i] = start
                    /\ \A k \in 1..(i - 1) : plan[k] # start
                    /\ After.currentProgress.currentRound = plan[i + 1]
              /\ After.currentProgress.roundQuestions.type = "object"
              /\ Len(After.currentProgress.roundQuestions.questions) = last'.num
              /\ After.currentProgress.currentQuestion = 1
              /\ last'.emits = RoundStartEmits(last'.roomId)
              /\ Len(After.players) = Len(Before.players)
              /\ \A k \in 1..Len(Before.players) :
                    /\ After.players[k].currentRoundScore = 0
                    /\ After.players[k].currentRoundAnswers = <<>>
                    /\ After.players[k].totalScore = Before.players[k].totalScore]_vars

\* C25 witness: both of two overlapping nextRound calls have completed with
\* success, the second with a fetch that returned no question, for a player
\* who has a cumulative score.
C25_Witness ==
  /\ Did("nextRound", "ok")
  /\ advancing = EmptyBag
  /\ materialized[last.roomId] = <<9, 12, 12>>
  /\ last.num = 0
  /\ rooms[last.roomId].currentProgress.currentRound = 12
  /\ rooms[last.roomId].currentProgress.roundQuestions = QuestionsObject(<<>>)
  /\ \E i \in 1..Len(rooms[last.roomId].players) :
       /\ rooms[last.roomId].players[i].totalScore > 0
       /\ rooms[last.roomId].players[i].currentRoundScore = 0

\* The connections in the channel of room r.
Channel(members, r) == {m[1] : m \in {x \in members : x[2] = r}}

\* C26: an event addressed to a room (join, startQuiz, nextQuestion,
\* submitAnswer, endOfRound, nextRound started or resumed, endOfGame), also
\* from a connection that plays in another room, leaves every other room
\* of the registry as it was (players, scores, ranks, progress, quizStarted),
\* leaves its channel's membership as it was and emits nothing to its channel.
C26_RoomsAreIsolated ==
  [][last'.op \in RoomOps =>
       \A b \in DOMAIN rooms \ {last'.roomId} :
          /\ b \in DOMAIN rooms'
          /\ rooms'[b] = rooms[b]
          /\ Channel(joined', b) = Channel(joined, b)
          /\ \A k \in 1..Len(last'.emits) : last'.emits[k].toRoom # b]_vars

\* C26 witness: a connection that plays in two rooms has just scored an
\* answer in one of them, and has no point in the other, which is started
\* too and holds the same question.
C26_Witness ==
  /\ Did("submitAnswer", "ok")
  /\ \E b \in DOMAIN rooms \ {last.roomId} :
       /\ last.socket \in PlayerIds(rooms[last.roomId])
       /\ last.socket \in PlayerIds(rooms[b])
       /\ rooms[last.roomId].players[PlayerIndex(rooms[last.roomId], last.socket)].totalScore = 1
       /\ rooms[b].players[PlayerIndex(rooms[b], last.socket)].totalScore = 0
       /\ rooms[b].quizStarted
       /\ rooms[b].currentProgress = rooms[last.roomId].currentProgress

\* C27: in every state, a room whose quiz has not started (quizStarted is
\* false) has only players whose currentRoundScore and totalScore are 0.
C27_NoScoreInLobby ==
  \A r \in DOMAIN rooms :
    ~rooms[r].quizStarted =>
      \A i \in 1..Len(rooms[r].players) :
        /\ rooms[r].players[i].currentRoundScore = 0
        /\ rooms[r].players[i].totalScore = 0

====
